---- MODULE Spec2Model ----
(***************************************************************************)
(* Model of src/app.py (HOT Tasking Manager GeoJSON optimizer, PRO+).      *)
(*                                                                         *)
(* Geometry is modelled on an integer lattice in degree space.  One        *)
(* lattice step is 5 degrees; lattice line y = k is latitude 30 + 5k       *)
(* degrees north, lattice line x = k is longitude 5k degrees east.  A      *)
(* polygon is the set of unit lattice cells it covers (a cell <<x, y>> is   *)
(* the closed square [x, x+1] x [y, y+1]); its rings run along lattice     *)
(* lines.  Lengths are in units of R*rad(5 deg)/20, so one lattice step of *)
(* latitude is 20 length units; areas are in squared length units.  The    *)
(* trigonometric functions of the source appear as tables at the lattice   *)
(* latitudes, rounded to the nearest unit, and float arithmetic as integer *)
(* arithmetic rounding down.                                               *)
(***************************************************************************)
EXTENDS Integers, Sequences, FiniteSets, TLC

\* Body applied to the value of a, which is computed once.
With(a, Body(_)) == CHOOSE r \in {Body(v) : v \in {a}} : TRUE

\* The lattice cells of the axis-parallel rectangle [x0, x1] x [y0, y1].
Rect(x0, y0, x1, y1) == (x0 .. x1 - 1) \X (y0 .. y1 - 1)

(***************************************************************************)
(* GEODESIC helpers                                                        *)
(***************************************************************************)

\* 20 length units per lattice step of latitude: 111132.954 - 559.822*cos(2 lat)
\* + 1.175*cos(4 lat) is within 0.4% of R*rad(1 deg) between 30 and 70 degrees.
M_PER_DEG_LAT == 20

\* 111132.954*cos(lat) per lattice step of longitude, at latitude
\* 30 + 2.5*m2 degrees (m2 = twice the lattice latitude), m2 = 0 .. 16.
M_PER_DEG_LON_TAB == <<17, 17, 16, 16, 15, 15, 14, 14, 13, 12, 11, 11, 10, 9, 8, 8, 7>>

\* meters_per_degree(lat_deg): lat2 is twice the lattice latitude.
meters_per_degree(lat2) == <<M_PER_DEG_LAT, M_PER_DEG_LON_TAB[lat2 + 1]>>

\* R^2 * rad(1 step) * (sin(lat at line k) - sin(30 deg)), k = 0 .. H:
\* the area between lattice lines 0 and k of a column one step wide.
SIN_TAB == <<0, 337, 654, 949, 1219, 1462, 1677, 1862, 2015>>

\* Area of one lattice cell of row y: R^2 * dlon * (sin(top) - sin(bottom)).
CellArea(y) == SIN_TAB[y + 2] - SIN_TAB[y + 1]

RECURSIVE SumArea(_)
SumArea(S) ==
    IF S = {} THEN 0
    ELSE LET c == CHOOSE d \in S : TRUE
         IN  CellArea(c[2]) + SumArea(S \ {c})

\* Edge-adjacency of lattice cells.
Adj(c, d) ==
    \/ c[1] = d[1] /\ (c[2] = d[2] + 1 \/ d[2] = c[2] + 1)
    \/ c[2] = d[2] /\ (c[1] = d[1] + 1 \/ d[1] = c[1] + 1)

RECURSIVE Grow(_, _)
Grow(S, front) ==
    LET nxt == {c \in S \ front : \E d \in front : Adj(c, d)}
    IN  IF nxt = {} THEN front ELSE Grow(S, front \cup nxt)

\* Lexicographically least cell of a non-empty set.
MinCell(S) ==
    CHOOSE c \in S : \A d \in S : c[1] < d[1] \/ (c[1] = d[1] /\ c[2] <= d[2])

\* The parts (.geoms) of a region, as a sequence of edge-connected cell sets.
RECURSIVE Components(_)
Components(S) ==
    IF S = {} THEN <<>>
    ELSE LET comp == Grow(S, {MinCell(S)})
         IN  <<comp>> \o Components(S \ comp)

IsPolygon(S) == S # {} /\ Grow(S, {MinCell(S)}) = S

\* poly.bounds: <<minx, miny, maxx, maxy>>.
Bounds(S) ==
    LET xs == {c[1] : c \in S}
        ys == {c[2] : c \in S}
        mn(T) == CHOOSE v \in T : \A u \in T : v <= u
        mx(T) == CHOOSE v \in T : \A u \in T : v >= u
    IN  <<mn(xs), mn(ys), mx(xs) + 1, mx(ys) + 1>>

\* The region enclosed by poly.exterior: the polygon with its holes filled.
\* A cell outside the polygon is outside the exterior ring iff it is joined
\* to the border of the (enlarged) bounding box through cells outside it.
Exterior(S) ==
    With(Bounds(S), LAMBDA b :
    With({c \in (b[1] - 1 .. b[3]) \X (b[2] - 1 .. b[4]) : c \notin S},
         LAMBDA bb :
        LET rim == {c \in bb : c[1] = b[1] - 1 \/ c[1] = b[3]
                                \/ c[2] = b[2] - 1 \/ c[2] = b[4]}
        IN  S \cup (bb \ Grow(bb, rim))))

\* geodesic_area_m2(poly): the spherical area enclosed by poly.exterior.
\* For a ring along lattice lines the edge sum
\*   sum rad(lon2 - lon1) * (2 + sin(lat1) + sin(lat2)) * R^2 / 2
\* is the sum, over the cells the ring encloses, of the cell areas.
geodesic_area_m2(S) == SumArea(Exterior(S))

(***************************************************************************)
(* Geometry values and the geometry kernel                                 *)
(***************************************************************************)

\* A geometry is a Polygon (one part) or a MultiPolygon (its .geoms).
Polygon(S) == [type |-> "Polygon", geoms |-> <<S>>]
MultiPolygon(parts) == [type |-> "MultiPolygon", geoms |-> parts]

\* All cells a geometry covers.
CellsOf(g) == UNION {g.geoms[i] : i \in 1 .. Len(g.geoms)}

\* A box that reaches one lattice step into the next grid column.
WideBox(x0, y0, x1, y1) == <<x0, y0, x1 + 1, y1>>

\* box(minx, miny, maxx, maxy)
box(x0, y0, x1, y1) == <<x0, y0, x1, y1>>

InBox(c, b) ==
    b[1] <= c[1] /\ c[1] + 1 <= b[3] /\ b[2] <= c[2] /\ c[2] + 1 <= b[4]

PtInBox(p, b) == b[1] <= p[1] /\ p[1] <= b[3] /\ b[2] <= p[2] /\ p[2] <= b[4]

Corners(c) == {<<c[1] + dx, c[2] + dy>> : dx \in 0 .. 1, dy \in 0 .. 1}

\* The four unit edges of a cell, each as <<lower-left end, other end>>.
Edges(c) ==
    { <<<<c[1], c[2]>>, <<c[1] + 1, c[2]>>>>,
      <<<<c[1], c[2] + 1>>, <<c[1] + 1, c[2] + 1>>>>,
      <<<<c[1], c[2]>>, <<c[1], c[2] + 1>>>>,
      <<<<c[1] + 1, c[2]>>, <<c[1] + 1, c[2] + 1>>>> }

\* poly.intersection(cell) of two closed regions.  The result has an areal
\* part (the cells of the polygon inside the box) and may have a part of
\* lower dimension: edges or corner points of the polygon that lie on the
\* boundary of the box without bounding any cell of the areal part.  The
\* kernel returns a Polygon or MultiPolygon only when the result is purely
\* areal; an areal part together with a lower-dimensional part is a
\* GeometryCollection, and a lower-dimensional part alone a line or point.
intersection(S, b) ==
    With({c \in S : InBox(c, b)}, LAMBDA area :
    With(Components(area), LAMBDA parts :
        LET near  == {c \in S \ area : \E p \in Corners(c) : PtInBox(p, b)}
            lower == \E c \in near :
                        \/ \E e \in Edges(c) :
                              /\ PtInBox(e[1], b) /\ PtInBox(e[2], b)
                              /\ \A d \in area : e \notin Edges(d)
                        \/ \E p \in Corners(c) :
                              /\ PtInBox(p, b)
                              /\ \A d \in area : p \notin Corners(d)
        IN  [type  |-> IF area = {}
                       THEN (IF lower THEN "LineOrPoint" ELSE "Empty")
                       ELSE IF lower THEN "GeometryCollection"
                       ELSE IF Len(parts) = 1 THEN "Polygon"
                       ELSE "MultiPolygon",
             geoms |-> parts]))

(***************************************************************************)
(* Split by area (no pyproj)                                               *)
(***************************************************************************)

\* The root left out: the side of a grid cell taken to be max_area_m2.
NoRoot(n) == n

\* The square root of n >= 0, rounded down (max_area_m2 ** 0.5, math.sqrt).
Sqrt(n) == CHOOSE r \in 0 .. 400 : r * r <= n /\ n < (r + 1) * (r + 1)

\* What one grid cell contributes to pieces (lines 137-145).
CellPieces(S, cell) ==
    With(intersection(S, cell), LAMBDA inter :
        IF inter.type = "Polygon" THEN <<Polygon(inter.geoms[1])>>
        ELSE IF inter.type = "MultiPolygon"
             THEN [i \in 1 .. Len(inter.geoms) |-> Polygon(inter.geoms[i])]
        ELSE <<>>)

\* The inner loop: while y < maxy (lines 136-146).
RECURSIVE GridColumn(_, _, _, _, _, _)
GridColumn(S, x, y, maxy, cell_deg_lon, cell_deg_lat) ==
    IF y < maxy
    THEN CellPieces(S, box(x, y, x + cell_deg_lon, y + cell_deg_lat))
         \o GridColumn(S, x, y + cell_deg_lat, maxy, cell_deg_lon, cell_deg_lat)
    ELSE <<>>

\* The outer loop: while x < maxx (lines 134-147).
RECURSIVE GridPieces(_, _, _, _, _)
GridPieces(S, x, b, cell_deg_lon, cell_deg_lat) ==
    IF x < b[3]
    THEN GridColumn(S, x, b[2], b[4], cell_deg_lon, cell_deg_lat)
         \o GridPieces(S, x + cell_deg_lon, b, cell_deg_lon, cell_deg_lat)
    ELSE <<>>

\* A result of a call: it returns a value, raises, or never returns.
Ok(v) == [status |-> "ok", value |-> v]
Raise == [status |-> "raise", value |-> <<>>]
Hang == [status |-> "hang", value |-> <<>>]

\* A comparison that leaves a polygon exactly at the threshold to the grid.
BelowThreshold(area_m2, max_area_m2) == area_m2 < max_area_m2

\* line 124: if area_m2 <= max_area_m2
WithinThreshold(area_m2, max_area_m2) == area_m2 <= max_area_m2

\* The body of split_by_area_no_pyproj for a single Polygon (lines 123-150).
\* topo_fail is the set of polygons on which the kernel's intersection
\* raises a topological error.
SplitPolygon(S, max_area_m2, topo_fail) ==
    IF WithinThreshold(geodesic_area_m2(S), max_area_m2)
    THEN Ok(<<Polygon(S)>>)
    \* a negative number to the power 0.5 is complex, and box() raises
    ELSE IF max_area_m2 < 0 THEN Raise
    \* cell size 0: y += 0 never reaches maxy
    ELSE IF max_area_m2 = 0 THEN Hang
    ELSE IF S \in topo_fail THEN Raise
    ELSE
    With(Sqrt(max_area_m2), LAMBDA cell_m :
    With(Bounds(S), LAMBDA b :
    With(meters_per_degree(b[2] + b[4]), LAMBDA mdeg :
    With(GridPieces(S, b[1], b, cell_m \div mdeg[2], cell_m \div mdeg[1]),
         LAMBDA pieces :
        IF pieces = <<>> THEN Ok(<<Polygon(S)>>) ELSE Ok(pieces)))))

\* split_by_area_no_pyproj(poly_geojson, max_area_m2): a MultiPolygon is
\* split part by part, from part i on (lines 118-122).
RECURSIVE SplitParts(_, _, _, _)
SplitParts(parts, i, max_area_m2, topo_fail) ==
    IF i > Len(parts) THEN Ok(<<>>)
    ELSE With(SplitPolygon(parts[i], max_area_m2, topo_fail), LAMBDA head :
             IF head.status # "ok" THEN head
             ELSE With(SplitParts(parts, i + 1, max_area_m2, topo_fail),
                       LAMBDA rest :
                      IF rest.status # "ok" THEN rest
                      ELSE Ok(head.value \o rest.value)))

split_by_area_no_pyproj(g, max_area_m2, topo_fail) ==
    IF g.type = "MultiPolygon"
    THEN SplitParts(g.geoms, 1, max_area_m2, topo_fail)
    ELSE SplitPolygon(g.geoms[1], max_area_m2, topo_fail)

(***************************************************************************)
(* Perimeter, compactness, representative point, union                     *)
(***************************************************************************)

Abs(n) == IF n < 0 THEN 0 - n ELSE n

\* haversine_m(lon1, lat1, lon2, lat2), with the coordinates in half lattice
\* steps and the distance in half length units.  At the scale of the lattice
\* the great-circle distance R*c is the hypotenuse of the north-south
\* distance and of the east-west distance at the middle latitude.
haversine_m(lon1, lat1, lon2, lat2) ==
    LET ns == Abs(lat2 - lat1) * M_PER_DEG_LAT
        ew == Abs(lon2 - lon1) * M_PER_DEG_LON_TAB[((lat1 + lat2) \div 2) + 1]
    IN  Sqrt(ns * ns + ew * ew)

\* The length of the ring edges on the four sides of cell c of region E
\* that are on the boundary of E.
CellBoundary(E, c) ==
    (IF <<c[1] - 1, c[2]>> \in E THEN 0 ELSE M_PER_DEG_LAT)
    + (IF <<c[1] + 1, c[2]>> \in E THEN 0 ELSE M_PER_DEG_LAT)
    + (IF <<c[1], c[2] - 1>> \in E THEN 0 ELSE M_PER_DEG_LON_TAB[2 * c[2] + 1])
    + (IF <<c[1], c[2] + 1>> \in E THEN 0 ELSE M_PER_DEG_LON_TAB[2 * c[2] + 3])

RECURSIVE SumBoundary(_, _)
SumBoundary(E, T) ==
    IF T = {} THEN 0
    ELSE LET c == CHOOSE d \in T : TRUE
         IN  CellBoundary(E, c) + SumBoundary(E, T \ {c})

\* perimeter_m(poly): the sum of haversine_m over the edges of poly.exterior.
perimeter_m(S) == With(Exterior(S), LAMBDA E : SumBoundary(E, E))

\* compactness(poly) = 4*pi*area / perimeter^2, in thousandths.
compactness(S) ==
    With(perimeter_m(S), LAMBDA p :
        IF p <= 0 THEN 0 ELSE (12566 * geodesic_area_m2(S)) \div (p * p))

\* The lattice points that are vertices of the rings of S: the points where
\* the boundary turns.
IsVertex(S, p) ==
    LET sw == <<p[1] - 1, p[2] - 1>> \in S
        se == <<p[1], p[2] - 1>> \in S
        nw == <<p[1] - 1, p[2]>> \in S
        ne == <<p[1], p[2]>> \in S
        n  == (IF sw THEN 1 ELSE 0) + (IF se THEN 1 ELSE 0)
              + (IF nw THEN 1 ELSE 0) + (IF ne THEN 1 ELSE 0)
    IN  n = 1 \/ n = 3 \/ (n = 2 /\ sw = ne)

Vertices(S) == {p \in UNION {Corners(c) : c \in S} : IsVertex(S, p)}

\* poly.representative_point(), in half lattice steps.  The kernel takes the
\* scan line midway between the two vertex latitudes that enclose the centre
\* of the bounding box, and on it the midpoint of the widest section of the
\* polygon (the westernmost of the widest).
representative_point(S) ==
    With(Bounds(S), LAMBDA b :
    With({p[2] : p \in Vertices(S)}, LAMBDA vy :
    With(CHOOSE y \in vy : 2 * y <= b[2] + b[4]
             /\ \A z \in vy : 2 * z <= b[2] + b[4] => z <= y, LAMBDA lo :
    With(CHOOSE y \in vy : 2 * y > b[2] + b[4]
             /\ \A z \in vy : 2 * z > b[2] + b[4] => z >= y, LAMBDA hi :
    With({c[1] : c \in {d \in S : d[2] = lo}}, LAMBDA row :
    With({r \in (b[1] .. b[3]) \X (b[1] .. b[3]) :
             /\ r[1] < r[2]
             /\ \A x \in r[1] .. r[2] - 1 : x \in row
             /\ (r[1] - 1) \notin row /\ r[2] \notin row}, LAMBDA runs :
    With(CHOOSE r \in runs : \A q \in runs :
             \/ r[2] - r[1] > q[2] - q[1]
             \/ (r[2] - r[1] = q[2] - q[1] /\ r[1] <= q[1]), LAMBDA best :
        <<best[1] + best[2], lo + hi>>)))))))

\* unary_union of regions: a Polygon if the union is connected through
\* edges, else a MultiPolygon of its parts.
unary_union(regions) ==
    With(Components(UNION regions), LAMBDA parts :
        IF Len(parts) = 1 THEN Polygon(parts[1]) ELSE MultiPolygon(parts))

\* small_poly.touches(cand) or small_poly.intersects(cand): the closed
\* regions have a point in common.
Intersects(S, T) ==
    \E c \in S, d \in T : Corners(c) \cap Corners(d) # {}

(***************************************************************************)
(* Merge small polygons into neighbours (iterative)                        *)
(***************************************************************************)

max_iter == 2000

\* polys with polys[lo] replaced by new_poly and polys[hi] popped
\* (lines 365-368, 389-391).
ReplacePop(polys, a, b, new_poly) ==
    LET hi == IF a > b THEN a ELSE b
        lo == IF a > b THEN b ELSE a
    IN  [k \in 1 .. Len(polys) - 1 |->
            IF k = lo THEN new_poly
            ELSE IF k < hi THEN polys[k] ELSE polys[k + 1]]

\* smalls.sort(key = (compactness, area)): s comes before t; the sort is
\* stable, so equal keys keep the order of the indices.
SmallBefore(key, s, t) ==
    \/ key[s][1] < key[t][1]
    \/ key[s][1] = key[t][1] /\ key[s][2] < key[t][2]
    \/ key[s] = key[t] /\ s < t

RECURSIVE SortedBy(_, _)
SortedBy(key, idxs) ==
    IF idxs = {} THEN <<>>
    ELSE With(CHOOSE s \in idxs : \A t \in idxs \ {s} : SmallBefore(key, s, t),
              LAMBDA first : <<first>> \o SortedBy(key, idxs \ {first}))

\* smalls after the sort of line 326, as the sequence of their indices.
SortSmalls(polys, idxs) ==
    SortedBy([s \in idxs |-> <<compactness(polys[s].geoms[1]),
                               geodesic_area_m2(polys[s].geoms[1])>>], idxs)

\* score of merging polys[sidx] into the touching neighbour polys[jdx]:
\* compactness(u) - compactness(cand) (line 354); compactness(u) raises
\* when the union is not one polygon, and the candidate is then skipped.
Scorable(polys, sidx, jdx) ==
    unary_union({polys[sidx].geoms[1], polys[jdx].geoms[1]}).type = "Polygon"

Score(polys, sidx, jdx) ==
    compactness(polys[sidx].geoms[1] \cup polys[jdx].geoms[1])
    - compactness(polys[jdx].geoms[1])

\* The touching neighbour chosen for polys[sidx] (lines 346-358): the first,
\* in index order, of those with the greatest score; 0 if there is none.
BestNeighbour(polys, sidx) ==
    With({j \in 1 .. Len(polys) :
             /\ j # sidx
             /\ Intersects(polys[sidx].geoms[1], polys[j].geoms[1])
             /\ Scorable(polys, sidx, j)}, LAMBDA cands :
    With([j \in cands |-> Score(polys, sidx, j)], LAMBDA score :
        IF cands = {} THEN 0
        ELSE CHOOSE j \in cands : \A k \in cands :
                 \/ score[j] > score[k]
                 \/ (score[j] = score[k] /\ j <= k)))

HasNeighbours(polys, sidx) ==
    \E j \in 1 .. Len(polys) :
        j # sidx /\ Intersects(polys[sidx].geoms[1], polys[j].geoms[1])

\* Distance between the representative points of polys[sidx] and polys[jdx].
IslandDistance(polys, sidx, jdx) ==
    LET c  == representative_point(polys[sidx].geoms[1])
        c2 == representative_point(polys[jdx].geoms[1])
    IN  haversine_m(c[1], c[2], c2[1], c2[2])

\* The nearest other polygon (lines 378-385): the first, in index order, of
\* those at the least distance; 0 if there is no other polygon.
NearestIndex(polys, sidx) ==
    With((1 .. Len(polys)) \ {sidx}, LAMBDA others :
    With([j \in others |-> IslandDistance(polys, sidx, j)], LAMBDA dist :
        IF others = {} THEN 0
        ELSE CHOOSE j \in others : \A k \in others :
                 \/ dist[j] < dist[k]
                 \/ (dist[j] = dist[k] /\ j <= k)))

\* The index polys[sidx] is merged into in this pass over smalls, 0 if it is
\* skipped (lines 332-397).  nearest_neighbor_max_m is in length units.
MergeTarget(polys, sidx, merge_islands_flag, nearest_neighbor_max_m) ==
    IF HasNeighbours(polys, sidx) THEN BestNeighbour(polys, sidx)
    ELSE IF merge_islands_flag
    THEN With(NearestIndex(polys, sidx), LAMBDA j :
             IF j # 0 /\ IslandDistance(polys, sidx, j) <= 2 * nearest_neighbor_max_m
             THEN j ELSE 0)
    ELSE 0

\* The first small polygon, in sorted order from position k on, that is merged.
RECURSIVE FirstMerged(_, _, _, _, _)
FirstMerged(polys, smalls, k, merge_islands_flag, nearest_neighbor_max_m) ==
    IF k > Len(smalls) THEN 0
    ELSE IF MergeTarget(polys, smalls[k], merge_islands_flag,
                        nearest_neighbor_max_m) # 0
    THEN smalls[k]
    ELSE FirstMerged(polys, smalls, k + 1, merge_islands_flag,
                     nearest_neighbor_max_m)

\* What one pass of the while loop does after the test of the cap.
MergeRaises == [kind |-> "raise", sidx |-> 0, jdx |-> 0, polys |-> <<>>]
MergeBreaks(polys) == [kind |-> "break", sidx |-> 0, jdx |-> 0, polys |-> polys]
MergeDone(polys, sidx, jdx) == [kind |-> "merge", sidx |-> sidx, jdx |-> jdx, polys |-> polys]

\* One pass of the while loop (lines 319-402).  geodesic_area_m2 and
\* compactness read poly.exterior, which a MultiPolygon does not have:
\* computing the stats of a list that holds one raises.
MergePass(polys, min_area_m2, merge_islands_flag, nearest_neighbor_max_m) ==
    IF \E i \in 1 .. Len(polys) : polys[i].type # "Polygon" THEN MergeRaises
    ELSE
    With({i \in 1 .. Len(polys) :
             geodesic_area_m2(polys[i].geoms[1]) < min_area_m2},
         LAMBDA small_idx :
    IF small_idx = {} THEN MergeBreaks(polys)
    ELSE
    With(FirstMerged(polys, SortSmalls(polys, small_idx), 1,
                     merge_islands_flag, nearest_neighbor_max_m),
         LAMBDA sidx :
    IF sidx = 0 THEN MergeBreaks(polys)
    ELSE
    With(MergeTarget(polys, sidx, merge_islands_flag, nearest_neighbor_max_m),
         LAMBDA jdx :
    With(unary_union({polys[sidx].geoms[1], polys[jdx].geoms[1]}),
         LAMBDA new_poly :
        MergeDone(ReplacePop(polys, sidx, jdx, new_poly), sidx, jdx)))))

\* The while loop of merge_small_polygons from the given iteration on.
RECURSIVE MergeLoop(_, _, _, _, _)
MergeLoop(polys, iteration, min_area_m2, merge_islands_flag, nearest_neighbor_max_m) ==
    IF iteration > max_iter THEN Ok(polys)
    ELSE With(MergePass(polys, min_area_m2, merge_islands_flag,
                        nearest_neighbor_max_m), LAMBDA pass :
             IF pass.kind = "raise" THEN Raise
             ELSE IF pass.kind = "break" THEN Ok(polys)
             ELSE MergeLoop(pass.polys, iteration + 1, min_area_m2,
                            merge_islands_flag, nearest_neighbor_max_m))

merge_small_polygons(polygons, min_area_m2, merge_islands_flag, nearest_neighbor_max_m) ==
    MergeLoop(polygons, 1, min_area_m2, merge_islands_flag,
              nearest_neighbor_max_m)

(***************************************************************************)
(* Resampling, the split worker, and the size of the output                *)
(***************************************************************************)

\* len(list(poly.exterior.coords)): the vertices of the exterior ring (a
\* point where the ring touches itself counts twice) and the closing point.
ExteriorCoords(S) ==
    With(Exterior(S), LAMBDA E :
    With(Vertices(E), LAMBDA vertices :
        LET twice == {p \in vertices :
                         <<p[1] - 1, p[2] - 1>> \in E <=> <<p[1], p[2]>> \in E}
        IN  Cardinality(vertices) + Cardinality(twice) + 1))

\* resample_polygon_geojson(poly_geojson, approx_points).  A ring of at most
\* approx_points coordinates is returned as it is.  A longer ring of fewer
\* than 2 * approx_points coordinates has step = 1: every coordinate of the
\* exterior is kept, and Polygon(new_coords) has the exterior ring only.
\* Rings of 2 * approx_points coordinates or more (step >= 2) have no
\* lattice model; the polygons of this model stay below that length.
resample_polygon_geojson(g, approx_points) ==
    With(ExteriorCoords(g.geoms[1]), LAMBDA len :
        IF len <= approx_points THEN g
        ELSE IF len \div approx_points = 1 THEN Polygon(Exterior(g.geoms[1]))
        ELSE CHOOSE decimated \in {} : TRUE)

\* process_polygon_worker(args): out["features"], out["diag"]["pieces"] and
\* whether out has the key "error".  A worker whose split never returns
\* never completes.
process_polygon_worker(poly_geojson, max_area_m2, approx_points, topo_fail) ==
    With(split_by_area_no_pyproj(poly_geojson, max_area_m2, topo_fail),
         LAMBDA split :
        IF split.status = "hang" THEN Hang
        ELSE IF split.status = "raise"
        THEN Ok([features |-> <<>>, pieces |-> 0, error |-> TRUE])
        ELSE Ok([features |-> [i \in 1 .. Len(split.value) |->
                     resample_polygon_geojson(split.value[i], approx_points)],
                 pieces |-> Len(split.value),
                 error |-> FALSE]))

\* The number of coordinates of all rings of a polygon.
CoordCount(S) ==
    With(Vertices(S), LAMBDA vertices :
        LET holes == Components(Exterior(S) \ S)
            twice == {p \in vertices :
                         <<p[1] - 1, p[2] - 1>> \in S <=> <<p[1], p[2]>> \in S}
        IN  Cardinality(vertices) + Cardinality(twice) + 1 + Len(holes))

\* geojson_bytes of the FeatureCollection of the features: 42 bytes for the
\* collection, 83 for the text of a feature around its coordinates, and 12
\* for a coordinate pair such as [10.0,55.0] and its comma.
RECURSIVE FeatureBytes(_, _)
FeatureBytes(features, i) ==
    IF i > Len(features) THEN 0
    ELSE 83 + 12 * CoordCount(features[i].geoms[1])
         + FeatureBytes(features, i + 1)

geojson_bytes(features) == 42 + FeatureBytes(features, 1)

max_attempts == 8

RECURSIVE Pow(_, _)
Pow(b, e) == IF e = 0 THEN 1 ELSE b * Pow(b, e - 1)

\* dynamic_max_area = (max_area_km2 * 1_000_000) / (1.5 ** attempt); areas
\* are in one unit throughout the model.
dynamic_max_area(max_area_km2, attempt) ==
    (max_area_km2 * Pow(2, attempt)) \div Pow(3, attempt)

\* max(20, approx_points // (1 + attempt))
round_approx_points(approx_points, attempt) ==
    IF approx_points \div (1 + attempt) > 20
    THEN approx_points \div (1 + attempt) ELSE 20

VARIABLES
    s_geom,     \* poly_geojson of the current call
    s_max,      \* max_area_m2 of the current call
    s_fail,     \* the polygons on which the kernel's intersection raises
    s_res,      \* the outcome of the current call, NoCall before it is made
    s_calls     \* number of calls made so far

svars == <<s_geom, s_max, s_fail, s_res, s_calls>>

VARIABLES
    g_polygons,   \* polygons, the list merge_small_polygons is called on
    g_min,        \* min_area_m2
    g_islands,    \* merge_islands_flag
    g_nn,         \* nearest_neighbor_max_m
    g_status,     \* "none" before the call, "loop", "returned" or "raised"
    g_polys,      \* polys
    g_iter,       \* iteration
    g_prev,       \* polys at the start of the last pass of the loop
    g_pass        \* what the last pass of the loop did

gvars == <<g_polygons, g_min, g_islands, g_nn, g_status, g_polys, g_iter,
           g_prev, g_pass>>

(***************************************************************************)
(* MAIN PROCESS (orchestrates everything)                                  *)
(***************************************************************************)

VARIABLES
    data,              \* the geometries of data["features"]
    cfg,               \* the configuration arguments of main_process
    topo_fail,         \* the polygons on which the kernel's intersection raises
    pc,                \* where main_process is
    logs,              \* logs, one tag per entry
    initial_polys,     \* the top-level polygons of the union
    merge_arg,         \* the list handed to merge_small_polygons, if called
    merged_polys,
    futures,           \* the arguments of the submitted workers, by index
    pending,           \* the futures as_completed has not yet yielded
    results_features,
    diagnostics,
    attempt,           \* adaptive_reduce_features: attempt
    curr,              \* adaptive_reduce_features: curr
    new_features,      \* adaptive_reduce_features: new_features
    result,            \* the value main_process returned
    run,               \* which press of the Process button this is
    prev_result        \* the value the previous run returned

mvars == <<data, cfg, topo_fail, pc, logs, initial_polys, merge_arg,
           merged_polys, futures, pending, results_features, diagnostics,
           attempt, curr, new_features, result, run, prev_result>>

vars == <<s_geom, s_max, s_fail, s_res, s_calls, g_polygons, g_min,
          g_islands, g_nn, g_status, g_polys, g_iter, g_prev, g_pass, data, cfg, topo_fail, pc,
          logs, initial_polys, merge_arg, merged_polys, futures, pending,
          results_features, diagnostics, attempt, curr, new_features, result,
          run, prev_result>>

\* The largest pool of workers whose completion orders are all followed.
MaxPool == 3

\* The number of presses of the Process button on the same upload.
MaxRuns == 2

NoResult == [ok |-> FALSE, returned |-> FALSE, features |-> <<>>]
Failed == [ok |-> FALSE, returned |-> TRUE, features |-> <<>>]
Succeeded(features) == [ok |-> TRUE, returned |-> TRUE, features |-> features]

NotPolygonal == [type |-> "Point", geoms |-> <<>>]

\* Uploads: a large polygon alone, with a second component, with a small
\* island near or touching it at a corner, a concave polygon, overlapping
\* and multi-part features, small polygons only, and uploads without
\* polygons.
DataChoices ==
    { <<Polygon(Rect(0, 0, 8, 4))>>,
      <<Polygon(Rect(0, 0, 8, 4)), Polygon(Rect(0, 5, 2, 7))>>,
      <<Polygon(Rect(0, 5, 1, 6)), Polygon(Rect(0, 0, 8, 4))>>,
      <<Polygon(Rect(0, 0, 4, 4)), Polygon(Rect(4, 4, 5, 5))>>,
      <<Polygon(Rect(0, 0, 8, 4) \cup Rect(0, 4, 2, 8))>>,
      <<Polygon(Rect(0, 0, 5, 4)), Polygon(Rect(3, 0, 8, 4)), NotPolygonal>>,
      <<MultiPolygon(<<Rect(0, 6, 1, 7), Rect(2, 6, 3, 7)>>),
        Polygon(Rect(5, 7, 6, 8))>>,
      <<Polygon(Rect(0, 6, 2, 7)), Polygon(Rect(4, 6, 5, 7))>>,
      <<NotPolygonal>>,
      <<>> }

\* The arguments of main_process: max_area_km2 is a threshold the lattice
\* resolves in every adaptive round, min_area_km2 = 0 keeps the merger off,
\* and target_bytes = int(target_size_mb * 1_000_000) is met by every upload.
\* The widgets of the form (lines 35-41) hand main_process max_area_km2 >= 1,
\* min_area_km2 >= 0.01 and approx_points >= 10; main_process itself takes
\* any value.
DefaultCfg ==
    [ max_area_km2            |-> 7000,
      min_area_km2            |-> 0,
      merge_islands_flag      |-> FALSE,
      nearest_neighbor_max_km |-> 60,
      approx_points           |-> 10,
      target_bytes            |-> 1000000 ]

\* The defaults, and the defaults with one setting changed: a threshold of
\* 0 or below, a minimum above the area of the small polygons without and
\* with island merging, and a target size no upload meets.
CfgChoices ==
    { DefaultCfg,
      [DefaultCfg EXCEPT !.max_area_km2 = 0],
      [DefaultCfg EXCEPT !.max_area_km2 = -1],
      [DefaultCfg EXCEPT !.min_area_km2 = 500],
      [DefaultCfg EXCEPT !.min_area_km2 = 500, !.merge_islands_flag = TRUE],
      [DefaultCfg EXCEPT !.target_bytes = 250] }

PolygonsOf(features) ==
    {features[i] : i \in {j \in 1 .. Len(features) :
                              features[j].type \in {"Polygon", "MultiPolygon"}}}

Idle ==
    /\ pc = "idle"
    /\ logs = <<>>
    /\ initial_polys = <<>>
    /\ merge_arg = <<>>
    /\ merged_polys = <<>>
    /\ futures = <<>>
    /\ pending = {}
    /\ results_features = <<>>
    /\ diagnostics = <<>>
    /\ attempt = 0
    /\ curr = <<>>
    /\ new_features = <<>>
    /\ result = NoResult

\* The state of the orchestrator while split_by_area_no_pyproj is called on
\* its own, and of those calls while the orchestrator runs.
MainParked ==
    /\ data = <<>>
    /\ cfg = DefaultCfg
    /\ topo_fail = {}
    /\ Idle
    /\ run = 1
    /\ prev_result = NoResult

NoCall == [status |-> "none", value |-> <<>>]

SplitParked ==
    /\ s_geom = NotPolygonal
    /\ s_max = 0
    /\ s_fail = {}
    /\ s_res = NoCall
    /\ s_calls = 0

NoPass == [kind |-> "none", sidx |-> 0, jdx |-> 0, polys |-> <<>>]

\* merge_small_polygons before it is called.
MergeNotCalled ==
    /\ g_status = "none"
    /\ g_polys = <<>>
    /\ g_iter = 0
    /\ g_prev = <<>>
    /\ g_pass = NoPass

MergeParked ==
    /\ g_polygons = <<>>
    /\ g_min = 0
    /\ g_islands = FALSE
    /\ g_nn = 0
    /\ MergeNotCalled

Init ==
    /\ data \in DataChoices
    /\ cfg \in CfgChoices
    /\ topo_fail \in {{}} \cup {{g.geoms[1]} : g \in PolygonsOf(data)}
    /\ Idle
    /\ run = 1
    /\ prev_result = NoResult
    /\ SplitParked
    /\ MergeParked

\* lines 410-420: no features, or no polygon among them, is a ValueError,
\* which the handler turns into the failure result.
Begin ==
    /\ pc = "idle"
    /\ IF data = <<>>
       THEN /\ result' = Failed /\ pc' = "done" /\ UNCHANGED logs
       ELSE IF PolygonsOf(data) = {}
       THEN /\ result' = Failed /\ pc' = "done" /\ logs' = <<"fun">>
       ELSE /\ pc' = "union" /\ logs' = <<"fun">> /\ UNCHANGED result
    /\ UNCHANGED <<data, cfg, topo_fail, initial_polys, merge_arg,
                   merged_polys, futures, pending, results_features,
                   diagnostics, attempt, curr, new_features, run, prev_result>>
    /\ UNCHANGED svars
    /\ UNCHANGED gvars

\* lines 422-436: the union and its top-level polygons.
Union ==
    /\ pc = "union"
    /\ \E parts \in {Components(UNION {CellsOf(g) : g \in PolygonsOf(data)})} :
           initial_polys' = [i \in 1 .. Len(parts) |-> Polygon(parts[i])]
    /\ logs' = logs \o <<"union", "initial">>
    /\ pc' = "merge"
    /\ UNCHANGED <<data, cfg, topo_fail, merge_arg, merged_polys, futures,
                   pending, results_features, diagnostics, attempt, curr,
                   new_features, result, run, prev_result>>
    /\ UNCHANGED svars
    /\ UNCHANGED gvars

\* A test that lets min_area_km2 = 0 through to the merger.
MergeAlways(c) == c.min_area_km2 >= 0

\* line 441
MergeEnabled(c) == c.min_area_km2 > 0

\* lines 438-448 (Step A): merge_small_polygons on the top-level polygons.
\* The merge runs in the process of main_process itself.
Merge ==
    /\ pc = "merge"
    /\ IF MergeEnabled(cfg)
       THEN \E m \in {merge_small_polygons(initial_polys, cfg.min_area_km2,
                         cfg.merge_islands_flag, cfg.nearest_neighbor_max_km)} :
                /\ merge_arg' = initial_polys
                /\ IF m.status = "ok"
                   THEN /\ merged_polys' = m.value
                        /\ logs' = logs \o <<"merge", "merged">>
                        /\ pc' = "split"
                        /\ UNCHANGED result
                   ELSE /\ logs' = logs \o <<"merge">>
                        /\ result' = Failed
                        /\ pc' = "done"
                        /\ UNCHANGED merged_polys
       ELSE /\ merged_polys' = initial_polys
            /\ pc' = "split"
            /\ UNCHANGED <<merge_arg, logs, result>>
    /\ UNCHANGED <<data, cfg, topo_fail, initial_polys, futures, pending,
                   results_features, diagnostics, attempt, curr, new_features,
                   run, prev_result>>
    /\ UNCHANGED svars
    /\ UNCHANGED gvars

\* lines 453-459 (Step B): one worker is submitted per polygon.
SubmitSplit ==
    /\ pc = "split"
    /\ Len(merged_polys) <= MaxPool
    /\ logs' = logs \o <<"split">>
    /\ futures' = [i \in 1 .. Len(merged_polys) |->
                      [poly_geojson |-> merged_polys[i],
                       max_area_m2 |-> cfg.max_area_km2,
                       approx_points |-> cfg.approx_points]]
    /\ pending' = 1 .. Len(merged_polys)
    /\ pc' = "collect"
    /\ UNCHANGED <<data, cfg, topo_fail, initial_polys, merge_arg,
                   merged_polys, results_features, diagnostics, attempt, curr,
                   new_features, result, run, prev_result>>
    /\ UNCHANGED svars
    /\ UNCHANGED gvars

WorkerResult(i) ==
    process_polygon_worker(futures[i].poly_geojson, futures[i].max_area_m2,
                           futures[i].approx_points, topo_fail)

\* lines 460-466: as_completed yields a completed future, whichever it is.
Collect(i) ==
    /\ pc = "collect"
    /\ i \in pending
    /\ \E res \in {WorkerResult(i)} :
           /\ res.status = "ok"
           /\ IF res.value.error
              THEN /\ logs' = logs \o <<"worker_error">>
                   /\ UNCHANGED <<results_features, diagnostics>>
              ELSE /\ results_features' = results_features \o res.value.features
                   /\ diagnostics' = Append(diagnostics, res.value.pieces)
                   /\ UNCHANGED logs
    /\ pending' = pending \ {i}
    /\ UNCHANGED <<data, cfg, topo_fail, pc, initial_polys, merge_arg,
                   merged_polys, futures, attempt, curr, new_features, result,
                   run, prev_result>>
    /\ UNCHANGED svars
    /\ UNCHANGED gvars

\* lines 468-475: all workers are collected; adaptive_reduce_features is
\* entered (lines 215-217).
EndSplit ==
    /\ pc = "collect"
    /\ pending = {}
    /\ logs' = logs \o <<"pieces", "adaptive">>
    /\ curr' = results_features
    /\ attempt' = 0
    /\ pc' = "adaptive"
    /\ UNCHANGED <<data, cfg, topo_fail, initial_polys, merge_arg,
                   merged_polys, futures, pending, results_features,
                   diagnostics, new_features, result, run, prev_result>>
    /\ UNCHANGED svars
    /\ UNCHANGED gvars

\* lines 218-231: one pass of the while loop up to the submission of the
\* workers of the round.
AdaptiveAttempt ==
    /\ pc = "adaptive"
    /\ attempt' = attempt + 1
    /\ IF geojson_bytes(curr) <= cfg.target_bytes \/ attempt + 1 >= max_attempts
       THEN /\ pc' = "export"
            /\ UNCHANGED <<futures, pending, new_features>>
       ELSE /\ Len(curr) <= MaxPool
            /\ new_features' = <<>>
            /\ futures' = [i \in 1 .. Len(curr) |->
                  [poly_geojson |-> curr[i],
                   max_area_m2 |-> dynamic_max_area(cfg.max_area_km2, attempt + 1),
                   approx_points |->
                       round_approx_points(cfg.approx_points, attempt + 1)]]
            /\ pending' = 1 .. Len(curr)
            /\ pc' = "round"
    /\ UNCHANGED <<data, cfg, topo_fail, logs, initial_polys, merge_arg,
                   merged_polys, results_features, diagnostics, curr, result,
                   run, prev_result>>
    /\ UNCHANGED svars
    /\ UNCHANGED gvars

\* lines 232-238: res always has the key "features".
RoundCollect(i) ==
    /\ pc = "round"
    /\ i \in pending
    /\ \E res \in {WorkerResult(i)} :
           /\ res.status = "ok"
           /\ new_features' = new_features \o res.value.features
    /\ pending' = pending \ {i}
    /\ UNCHANGED <<data, cfg, topo_fail, pc, logs, initial_polys, merge_arg,
                   merged_polys, futures, results_features, diagnostics,
                   attempt, curr, result, run, prev_result>>
    /\ UNCHANGED svars
    /\ UNCHANGED gvars

\* line 239
EndRound ==
    /\ pc = "round"
    /\ pending = {}
    /\ curr' = new_features
    /\ pc' = "adaptive"
    /\ UNCHANGED <<data, cfg, topo_fail, logs, initial_polys, merge_arg,
                   merged_polys, futures, pending, results_features,
                   diagnostics, attempt, new_features, result, run, prev_result>>
    /\ UNCHANGED svars
    /\ UNCHANGED gvars

\* lines 476-508: the tiles, the ZIP and the preview are made of
\* final_features, which is the value returned by adaptive_reduce_features.
Export ==
    /\ pc = "export"
    /\ logs' = logs \o <<"final", "tiles">>
    /\ result' = Succeeded(curr)
    /\ pc' = "done"
    /\ UNCHANGED <<data, cfg, topo_fail, initial_polys, merge_arg,
                   merged_polys, futures, pending, results_features,
                   diagnostics, attempt, curr, new_features, run, prev_result>>
    /\ UNCHANGED svars
    /\ UNCHANGED gvars

\* lines 515-527: the button is pressed again on the same upload with the
\* same settings.
Rerun ==
    /\ pc = "done"
    /\ run < MaxRuns
    /\ prev_result' = result
    /\ run' = run + 1
    /\ pc' = "idle"
    /\ logs' = <<>>
    /\ initial_polys' = <<>>
    /\ merge_arg' = <<>>
    /\ merged_polys' = <<>>
    /\ futures' = <<>>
    /\ pending' = {}
    /\ results_features' = <<>>
    /\ diagnostics' = <<>>
    /\ attempt' = 0
    /\ curr' = <<>>
    /\ new_features' = <<>>
    /\ result' = NoResult
    /\ UNCHANGED <<data, cfg, topo_fail>>
    /\ UNCHANGED svars
    /\ UNCHANGED gvars

Next ==
    \/ Begin
    \/ Union
    \/ Merge
    \/ SubmitSplit
    \/ \E i \in pending : Collect(i)
    \/ EndSplit
    \/ AdaptiveAttempt
    \/ \E i \in pending : RoundCollect(i)
    \/ EndRound
    \/ Export
    \/ Rerun

Spec == Init /\ [][Next]_vars

(***************************************************************************)
(* Calls of split_by_area_no_pyproj on its own                             *)
(***************************************************************************)

\* Number of re-splits of returned pieces that are followed.
MaxResplit == 2

\* Valid input polygons: rectangles, concave polygons (L and U shapes),
\* polygons with a hole, and multi-part inputs.
SplitRects ==
    {Rect(0, t[1], t[2], t[1] + t[3]) :
        t \in {u \in {0, 2, 4, 5} \X {1, 2, 4, 6, 8} \X {1, 2, 3, 4, 8} :
                  u[1] + u[3] <= 8}}

SplitConcave ==
    { Rect(0, 0, 6, 2) \cup Rect(0, 2, 2, 6),                          \* L
      Rect(0, 0, 8, 3) \cup Rect(0, 3, 3, 8),                          \* L
      Rect(0, 4, 4, 5) \cup Rect(2, 5, 4, 6),                          \* L
      Rect(0, 0, 7, 2) \cup Rect(0, 2, 2, 6) \cup Rect(5, 2, 7, 6),    \* U
      Rect(0, 0, 6, 6) \ Rect(2, 2, 4, 4),                             \* hole
      Rect(0, 0, 8, 8) \ Rect(1, 1, 3, 3) }                            \* hole

SplitMulti ==
    { <<Rect(0, 0, 3, 4), Rect(4, 0, 8, 8)>>,
      <<Rect(0, 0, 8, 2), Rect(0, 3, 8, 8)>>,
      <<Rect(0, 5, 4, 7), Rect(5, 0, 6, 1)>> }

SplitInputs ==
    {Polygon(S) : S \in {T \in SplitRects \cup SplitConcave : IsPolygon(T)}}
    \cup {MultiPolygon(parts) : parts \in SplitMulti}

\* A positive threshold the lattice resolves: the grid cell is at least one
\* lattice step wide and high.
Resolved(max_area_m2) == max_area_m2 >= M_PER_DEG_LAT * M_PER_DEG_LAT

\* The first part's area, its half, and fixed thresholds.
SplitThresholds(g) ==
    LET a == geodesic_area_m2(g.geoms[1])
    IN  {m \in {a, a \div 2, 400, 1600, 3600, 6400} : Resolved(m)}

SplitInit ==
    /\ s_geom \in SplitInputs
    /\ s_max \in SplitThresholds(s_geom)
    /\ s_fail \in {{}, {s_geom.geoms[1]}}
    /\ s_res = NoCall
    /\ s_calls = 0
    /\ MainParked
    /\ MergeParked

\* split_by_area_no_pyproj(s_geom, s_max)
SplitCall ==
    /\ s_res = NoCall
    /\ s_res' = split_by_area_no_pyproj(s_geom, s_max, s_fail)
    /\ s_calls' = s_calls + 1
    /\ UNCHANGED <<s_geom, s_max, s_fail>>
    /\ UNCHANGED mvars
    /\ UNCHANGED gvars

\* split_by_area_no_pyproj(q, s_max) for a piece q of the previous result.
Resplit ==
    /\ s_res.status = "ok"
    /\ s_calls <= MaxResplit
    /\ \E i \in 1 .. Len(s_res.value) :
          /\ s_geom' = s_res.value[i]
          /\ s_res' = split_by_area_no_pyproj(s_res.value[i], s_max, s_fail)
    /\ s_calls' = s_calls + 1
    /\ UNCHANGED <<s_max, s_fail>>
    /\ UNCHANGED mvars
    /\ UNCHANGED gvars

SplitNext == SplitCall \/ Resplit

SpecSplit == SplitInit /\ [][SplitNext]_vars

(***************************************************************************)
(* Properties of split_by_area_no_pyproj                                   *)
(***************************************************************************)

Pieces == IF s_res.status = "ok" THEN s_res.value ELSE <<>>

PieceCells(i) == Pieces[i].geoms[1]

\* C1: every piece returned for a threshold > 0 has area at most the
\* threshold plus a tolerance of 5% (the code flags no piece as returned at
\* a recursion-depth cap, so none is exempt).
C1_ThresholdRespect ==
    s_max > 0 =>
        \A i \in 1 .. Len(Pieces) :
            geodesic_area_m2(PieceCells(i)) * 100 <= s_max * 105

\* C2: the pieces returned for a valid input and a threshold > 0 together
\* cover the input: they cover the same cells, and their areas sum to the
\* area of the input.
RECURSIVE SumPieces(_, _)
SumPieces(ps, i) ==
    IF i > Len(ps) THEN 0 ELSE SumArea(ps[i].geoms[1]) + SumPieces(ps, i + 1)

C2_AreaConservation ==
    (s_res.status = "ok" /\ s_max > 0) =>
        /\ UNION {PieceCells(i) : i \in 1 .. Len(Pieces)} = CellsOf(s_geom)
        /\ SumPieces(Pieces, 1) = SumArea(CellsOf(s_geom))

\* C3: any two distinct returned pieces have no cell in common (their
\* intersection has zero area).
C3_Disjointness ==
    \A i, j \in 1 .. Len(Pieces) :
        i # j => PieceCells(i) \cap PieceCells(j) = {}

C3_Witness ==
    /\ s_calls = 1 /\ Len(Pieces) >= 4
    /\ s_geom.type = "Polygon"
    /\ \E i, j \in 1 .. Len(Pieces) :
          i # j /\ \E c \in PieceCells(i), d \in PieceCells(j) : Adj(c, d)

\* C4: a call on a single polygon whose area is at most the threshold (and
\* so a call on a conforming piece of an earlier split) returns the
\* one-element list of that polygon, unchanged.
C4_Idempotence ==
    ( /\ s_res.status # "none"
      /\ s_geom.type = "Polygon"
      /\ geodesic_area_m2(s_geom.geoms[1]) <= s_max )
    => s_res = Ok(<<s_geom>>)

\* A piece of an earlier split whose area is exactly the threshold has been
\* split again.
C4_Witness ==
    /\ s_calls = 2
    /\ geodesic_area_m2(s_geom.geoms[1]) = s_max
    /\ s_res = Ok(<<s_geom>>)

\* A rectangle whose sides have the same ground length at its middle latitude.
IsSquare(g) ==
    /\ g.type = "Polygon"
    /\ LET S == g.geoms[1]
           b == Bounds(S)
           mdeg == meters_per_degree(b[2] + b[4])
       IN  /\ S = Rect(b[1], b[2], b[3], b[4])
           /\ (b[3] - b[1]) * mdeg[2] = (b[4] - b[2]) * mdeg[1]

SquareTwiceThreshold ==
    /\ s_calls = 1 /\ s_res.status = "ok"
    /\ IsSquare(s_geom)
    /\ geodesic_area_m2(s_geom.geoms[1]) = 2 * s_max

LogIndex(tag) == {i \in 1 .. Len(logs) : logs[i] = tag}

C7_TotalArea ==
    pc = "adaptive" => SumPieces(curr, 1) = SumPieces(initial_polys, 1)

\* C8: a second run on the same upload with the same settings returns what
\* the first run returned, the same features in the same order.
C8_Determinism ==
    (run > 1 /\ pc = "done") => result = prev_result

\* C9: a polygon on which the kernel's intersection raises while it is
\* split is among the collected pieces, unsplit, no worker error is logged
\* for it, and the run returns a result that is ok.
C9_FailureFallback ==
    \A i \in 1 .. Len(merged_polys) :
        ( /\ merged_polys[i].geoms[1] \in topo_fail
          /\ cfg.max_area_km2 > 0
          /\ geodesic_area_m2(merged_polys[i].geoms[1]) > cfg.max_area_km2 )
        => /\ LogIndex("worker_error") = {}
           /\ LogIndex("pieces") # {} =>
                  \E k \in 1 .. Len(results_features) :
                      results_features[k] = merged_polys[i]
           /\ pc = "done" => result.ok

\* C10: with max_area_km2 <= 0 no union, merge or split step runs, and a
\* run that returns returns an error.
C10_ConfigRejected ==
    cfg.max_area_km2 <= 0 =>
        /\ LogIndex("union") = {}
        /\ LogIndex("merge") = {}
        /\ LogIndex("split") = {}
        /\ pc = "done" => ~result.ok

(***************************************************************************)
(* Calls of merge_small_polygons on its own                                *)
(***************************************************************************)

\* The widest and highest neighbour of the lists of three polygons.
MaxSide == 3

\* A cell of row 0 between a polygon to its west and one to its east, the
\* small polygon in each of the three positions of the list.
MergeBetween ==
    UNION { { <<Polygon(Rect(0, 0, t[1], t[3])),
                Polygon(Rect(t[1], 0, t[1] + 1, 1)),
                Polygon(Rect(t[1] + 1, 0, t[1] + 1 + t[2], t[4]))>>,
              <<Polygon(Rect(t[1], 0, t[1] + 1, 1)),
                Polygon(Rect(0, 0, t[1], t[3])),
                Polygon(Rect(t[1] + 1, 0, t[1] + 1 + t[2], t[4]))>>,
              <<Polygon(Rect(0, 0, t[1], t[3])),
                Polygon(Rect(t[1] + 1, 0, t[1] + 1 + t[2], t[4])),
                Polygon(Rect(t[1], 0, t[1] + 1, 1))>> } :
            t \in (1 .. MaxSide) \X (1 .. MaxSide) \X (1 .. MaxSide)
                      \X (1 .. MaxSide) }

\* A small polygon that touches no other: alone with one polygon at three
\* distances, with two at different distances, and beside a touching pair.
MergeIslands ==
    { <<Polygon(Rect(0, 0, 1, 1)), Polygon(Rect(2, 0, 5, 3))>>,
      <<Polygon(Rect(3, 0, 6, 3)), Polygon(Rect(0, 0, 1, 1))>>,
      <<Polygon(Rect(0, 0, 1, 1)), Polygon(Rect(5, 0, 8, 3))>>,
      <<Polygon(Rect(0, 0, 1, 1)), Polygon(Rect(5, 0, 7, 2)),
        Polygon(Rect(2, 0, 4, 2))>>,
      <<Polygon(Rect(0, 0, 3, 3)), Polygon(Rect(3, 0, 4, 1)),
        Polygon(Rect(6, 0, 7, 1))>>,
      <<Polygon(Rect(0, 0, 1, 1)), Polygon(Rect(3, 0, 4, 1))>> }

\* Polygons that touch at a corner only, a row of four cells, a polygon
\* alone, and no polygon.
MergeOthers ==
    { <<Polygon(Rect(0, 0, 2, 2)), Polygon(Rect(2, 2, 3, 3))>>,
      <<Polygon(Rect(0, 0, 1, 1)), Polygon(Rect(1, 0, 2, 1)),
        Polygon(Rect(2, 0, 3, 1)), Polygon(Rect(3, 0, 4, 1))>>,
      <<Polygon(Rect(0, 0, 1, 1))>>,
      <<>> }

\* Lists with a small cell and two polygons of different area that each
\* cover it: the union of the cell with either is that polygon, so that the
\* two scores are equal.
MergeOverlaps ==
    LET small  == Polygon(Rect(1, 1, 2, 2))
        medium == Polygon(Rect(0, 0, 3, 3))
        big    == Polygon(Rect(0, 0, 4, 4))
    IN  { <<small, big, medium>>, <<small, medium, big>>,
          <<big, small, medium>>, <<medium, big, small>> }

MergeInputs == MergeBetween \cup MergeIslands \cup MergeOthers \cup MergeOverlaps

\* min_area_m2: above the area of a cell, and above that of two by two cells.
MergeMinAreas == {400, 1500}

\* nearest_neighbor_max_m: less than two lattice steps, and more than eight.
MergeMaxDistances == {30, 200}

MergeInit ==
    /\ g_polygons \in MergeInputs
    /\ g_min \in MergeMinAreas
    /\ g_islands \in BOOLEAN
    /\ g_nn \in MergeMaxDistances
    /\ MergeNotCalled
    /\ MainParked
    /\ SplitParked

\* lines 310-312
MergeEnter ==
    /\ g_status = "none"
    /\ g_polys' = g_polygons
    /\ g_iter' = 0
    /\ g_status' = "loop"
    /\ UNCHANGED <<g_polygons, g_min, g_islands, g_nn, g_prev, g_pass>>
    /\ UNCHANGED mvars
    /\ UNCHANGED svars

\* lines 313-403: one pass of the while loop; the function returns polys
\* when the loop is left by a break, and raises what the pass raises.
MergeIterate ==
    /\ g_status = "loop"
    /\ g_iter' = g_iter + 1
    /\ g_prev' = g_polys
    /\ IF g_iter + 1 > max_iter
       THEN /\ g_status' = "returned"
            /\ g_pass' = MergeBreaks(g_polys)
            /\ UNCHANGED g_polys
       ELSE \E pass \in {MergePass(g_polys, g_min, g_islands, g_nn)} :
                /\ g_pass' = pass
                /\ g_status' = IF pass.kind = "raise" THEN "raised"
                               ELSE IF pass.kind = "break" THEN "returned"
                               ELSE "loop"
                /\ g_polys' = IF pass.kind = "merge" THEN pass.polys ELSE g_polys
    /\ UNCHANGED <<g_polygons, g_min, g_islands, g_nn>>
    /\ UNCHANGED mvars
    /\ UNCHANGED svars

MergeNext == MergeEnter \/ MergeIterate

SpecMerge == MergeInit /\ [][MergeNext]_vars

(***************************************************************************)
(* Properties of merge_small_polygons                                      *)
(***************************************************************************)

\* The area of a polygon of the list, all its parts counted.
RECURSIVE PartsArea(_, _)
PartsArea(parts, i) ==
    IF i > Len(parts) THEN 0
    ELSE geodesic_area_m2(parts[i]) + PartsArea(parts, i + 1)

\* The number of polygons of the list that are smaller than min_area_m2.
SmallCount(polys, min_area_m2) ==
    Cardinality({i \in 1 .. Len(polys) :
                    PartsArea(polys[i].geoms, 1) < min_area_m2})

\* C11: merge_small_polygons never raises, so it returns its list; a pass
\* of the loop that does not end the loop has merged, and has left fewer
\* small polygons than it found; and the loop has made no pass beyond the
\* cap of max_iter.
C11_MergeTerminates ==
    /\ g_status # "raised"
    /\ (g_status = "loop" /\ g_iter > 0) =>
           /\ g_pass.kind = "merge"
           /\ SmallCount(g_polys, g_min) < SmallCount(g_prev, g_min)
    /\ g_status = "returned" =>
           (g_iter <= max_iter + 1 /\ g_pass.kind = "break")

\* The number of times x is in the list.
Count(polys, x) == Cardinality({i \in 1 .. Len(polys) : polys[i] = x})

\* The lists hold the same polygons, each as many times.
SamePolygons(a, b) ==
    /\ Len(a) = Len(b)
    /\ \A i \in 1 .. Len(a) : Count(a, a[i]) = Count(b, a[i])

\* polys without polys[sidx] and polys[jdx], and with their union.
MergedInto(polys, sidx, jdx) ==
    SelectSeq([k \in 1 .. Len(polys) |->
                  IF k = sidx THEN NotPolygonal ELSE polys[k]],
              LAMBDA q : q # NotPolygonal /\ q # polys[jdx])
    \o <<unary_union({polys[sidx].geoms[1], polys[jdx].geoms[1]})>>

\* The polygons that touch polys[sidx] and whose union with it is a polygon.
Adjacent(polys, sidx) ==
    {k \in 1 .. Len(polys) :
        /\ k # sidx
        /\ Intersects(polys[sidx].geoms[1], polys[k].geoms[1])
        /\ Scorable(polys, sidx, k)}

\* The last pass of the loop has merged a small polygon that has a
\* polygon touching it.
NeighbourMerged ==
    /\ g_pass.kind = "merge"
    /\ HasNeighbours(g_prev, g_pass.sidx)

\* The loop has ended because a pass found nothing to merge.
NothingToMerge == g_status = "returned" /\ g_iter <= max_iter

\* C12: a small polygon that has adjacent polygons is merged into the one
\* of them with the greatest compactness gain and, among those of equal
\* gain, into one of the smallest area; the list after the merge holds the
\* union in place of the two, and the other polygons as they were; and no
\* small polygon that has an adjacent polygon is left when the loop ends
\* with nothing to merge.
C12_NeighbourSelection ==
    /\ NeighbourMerged =>
           LET sidx  == g_pass.sidx
               jdx   == g_pass.jdx
               adj   == Adjacent(g_prev, sidx)
               gain  == [k \in adj |-> Score(g_prev, sidx, k)]
               area  == [k \in adj |-> geodesic_area_m2(g_prev[k].geoms[1])]
           IN  /\ jdx \in adj
               /\ \A k \in adj :
                      \/ gain[jdx] > gain[k]
                      \/ (gain[jdx] = gain[k] /\ area[jdx] <= area[k])
               /\ SamePolygons(g_polys, MergedInto(g_prev, sidx, jdx))
    /\ NothingToMerge =>
           \A i \in 1 .. Len(g_polys) :
               geodesic_area_m2(g_polys[i].geoms[1]) < g_min
                   => ~HasNeighbours(g_polys, i)

\* The last pass of the loop has merged a small polygon that no polygon
\* touches.
IslandMerged ==
    /\ g_pass.kind = "merge"
    /\ ~HasNeighbours(g_prev, g_pass.sidx)

\* polys[sidx] is small, no polygon touches it, and the island branch does
\* not merge it: island merging is off, or there is no other polygon, or the
\* nearest one is too far.
KeptIsland(polys, sidx) ==
    /\ geodesic_area_m2(polys[sidx].geoms[1]) < g_min
    /\ ~HasNeighbours(polys, sidx)
    /\ \/ ~g_islands
       \/ Len(polys) = 1
       \/ \A k \in (1 .. Len(polys)) \ {sidx} :
              IslandDistance(polys, sidx, k) > g_nn

\* C13: a small polygon that no polygon touches is merged only when island
\* merging is on and the nearest other polygon is within the maximum
\* distance, and then into that nearest polygon; the loop carries on with
\* the list the merge leaves, so that it never ends by an exception; and a
\* small polygon that the island branch does not merge is in the output as
\* it was in the input, every small polygon that nothing touches and that
\* is left in the output being one the island branch does not merge.
C13_IslandFallback ==
    /\ IslandMerged =>
           LET sidx == g_pass.sidx
               jdx  == g_pass.jdx
               dist == [k \in (1 .. Len(g_prev)) \ {sidx} |->
                           IslandDistance(g_prev, sidx, k)]
           IN  /\ g_islands
               /\ jdx \in DOMAIN dist
               /\ dist[jdx] <= g_nn
               /\ \A k \in DOMAIN dist : dist[jdx] <= dist[k]
               /\ SamePolygons(g_polys, MergedInto(g_prev, sidx, jdx))
    /\ g_status # "raised"
    /\ NothingToMerge =>
           /\ \A i \in 1 .. Len(g_polygons) :
                  KeptIsland(g_polygons, i)
                      => Count(g_polys, g_polygons[i]) >= 1
           /\ \A i \in 1 .. Len(g_polys) :
                  (/\ geodesic_area_m2(g_polys[i].geoms[1]) < g_min
                   /\ ~HasNeighbours(g_polys, i)) => KeptIsland(g_polys, i)

====
